---- MODULE Spec2Model ----
(***************************************************************************)
(* Model of the MCP job-matcher server: the sliding-window rate limiters   *)
(* (rateLimiter.js, src/worker.js), the tool handlers (index.js,           *)
(* src/worker.js) and the transport front-ends (index.js stdio,            *)
(* start-http.js, src/worker.js fetch).                                    *)
(*                                                                         *)
(* Time is a discrete clock `now` (one unit stands for a slice of the      *)
(* window).  The limit N and the window are constructor parameters of the  *)
(* limiter classes; the model instantiates them with small values.         *)
(***************************************************************************)
EXTENDS Integers, Sequences, FiniteSets, TLC

\* ---------------------------------------------------------------- bounds
\* requestsPerMinute of the limiter instances (10 in the source, scaled).
RequestsPerMinute == 2
\* windowSizeMs of the limiter instances (60000 ms in the source, scaled to clock ticks).
WindowSizeMs == 2
\* the clock stops advancing here
MaxTime == 3
\* number of tool calls a behaviour hands to the limiters
MaxRequests == 3
\* number of tool calls that may wait for the backend at once
MaxPending == 2
\* number of jobs in a backend response
MaxJobs == 2

Sessions == {"s1", "s2"}
Impls == {"RateLimiter", "WorkersRateLimiter"}

VARIABLES
    now,        \* Date.now()
    impl,       \* which limiter class the harness exercises
    users,      \* RateLimiter.users : sessionId -> [requests, resetTime]
    requests,   \* WorkersRateLimiter.requests : sessionId -> timestamps
    last,       \* the value returned by the latest step (NoCall when it returned none)
    allowedLog, \* history: per session, the timestamps of the allowed checkLimit calls since its last reset
    denied,     \* history: per session, the oldest counted timestamp and the returned resetTime of its latest denial (NotDenied: not denied since its last allowed call)
    transport,  \* the front-end this process runs: stdio, http or worker
    secret,     \* whether API_AUTH_TOKEN is configured
    envLimit,   \* RATE_LIMIT_PER_MINUTE of the environment (0: unset or not a number)
    pending,    \* tool calls suspended in `await fetch(...)`
    resp,       \* the response written by the latest step (NoResp when it wrote none)
    callLog,    \* history: per peer, the arrival times of the tool calls handed to the limiter
    input,      \* the value a validator or formatter is applied to
    output      \* what it returned (NoOutput before the call)

limVars == <<impl, users, requests, last, allowedLog, denied>>
fnVars == <<input, output>>
srvVars == <<transport, secret, envLimit, pending, resp, callLog, fnVars>>
vars == <<now, impl, users, requests, last, allowedLog, denied,
          transport, secret, envLimit, pending, resp, callLog, input, output>>

\* ------------------------------------------------------------ RateLimiter
RECURSIVE SeqMin(_)
SeqMin(s) == IF Len(s) = 1 THEN s[1]
             ELSE LET m == SeqMin(Tail(s)) IN IF s[1] < m THEN s[1] ELSE m

\* a filter that drops a timestamp one tick before it leaves the window
InWindow_early(timestamp, cutoff) == timestamp > cutoff + 1

\* a filter that keeps a timestamp for two ticks after it left the window
InWindow_late(timestamp, cutoff) == timestamp > cutoff - 2

\* a filter that still counts a timestamp exactly one window old
InWindow_closed(timestamp, cutoff) == timestamp >= cutoff

\* the window test of the filter callbacks: timestamp > cutoff
InWindow(timestamp, cutoff) == timestamp > cutoff

\* a pruning that moves resetTime on every call, not only for an empty list
cleanOldRequests_touch(userData, t) ==
    [requests |-> SelectSeq(userData.requests, LAMBDA timestamp: InWindow(timestamp, t - WindowSizeMs)),
     resetTime |-> t + WindowSizeMs]

\* RateLimiter.cleanOldRequests(userData, now)
cleanOldRequests(userData, t) ==
    LET cutoff == t - WindowSizeMs
        kept == SelectSeq(userData.requests, LAMBDA timestamp: InWindow(timestamp, cutoff))
    IN [requests |-> kept,
        resetTime |-> IF Len(kept) = 0 THEN t + WindowSizeMs ELSE userData.resetTime]

\* RateLimiter.getUserData(sessionId): the users map after the get-or-create
getUserData(us, sessionId, t) ==
    IF sessionId \in DOMAIN us THEN us
    ELSE [x \in DOMAIN us \cup {sessionId} |->
            IF x = sessionId THEN [requests |-> <<>>, resetTime |-> t + WindowSizeMs]
            ELSE us[x]]

\* an off-by-one denial test: requests.length > requestsPerMinute
LimitReached_strict(count, limit) == count > limit

\* the comparison that decides a denial: requests.length >= requestsPerMinute
LimitReached(count, limit) == count >= limit

\* a check whose append is lost when the record already holds a timestamp, as
\* when two calls push onto the list each of them read before the other wrote
checkLimit_lost(us, limit, sessionId, t) ==
    LET us1 == getUserData(us, sessionId, t)
        userData == cleanOldRequests(us1[sessionId], t)
        kept == IF Len(userData.requests) = 0 THEN <<t>> ELSE userData.requests
    IN [users |-> [us1 EXCEPT ![sessionId] = [requests |-> kept, resetTime |-> t + WindowSizeMs]],
        result |-> [allowed |-> TRUE, remaining |-> limit - Len(kept),
                    resetTime |-> t + WindowSizeMs,
                    requestCount |-> Len(kept), limit |-> limit]]

\* a check that reports the count it found before it recorded the request
checkLimit_uncounted(us, limit, sessionId, t) ==
    LET us1 == getUserData(us, sessionId, t)
        userData == cleanOldRequests(us1[sessionId], t)
        full == LimitReached(Len(userData.requests), limit)
        after == IF full THEN userData
                 ELSE [requests |-> Append(userData.requests, t), resetTime |-> t + WindowSizeMs]
    IN [users |-> [us1 EXCEPT ![sessionId] = after],
        result |-> [allowed |-> ~full,
                    remaining |-> IF full THEN 0 ELSE limit - Len(after.requests),
                    resetTime |-> after.resetTime,
                    requestCount |-> Len(userData.requests),
                    limit |-> limit]]

\* RateLimiter.checkLimit(sessionId): the new users map and the returned object
checkLimit(us, limit, sessionId, t) ==
    LET us1 == getUserData(us, sessionId, t)
        userData == cleanOldRequests(us1[sessionId], t)
    IN IF LimitReached(Len(userData.requests), limit)
       THEN [users |-> [us1 EXCEPT ![sessionId] = userData],
             result |-> [allowed |-> FALSE, remaining |-> 0,
                         resetTime |-> userData.resetTime,
                         requestCount |-> Len(userData.requests),
                         limit |-> limit]]
       ELSE LET pushed == [requests |-> Append(userData.requests, t),
                           resetTime |-> t + WindowSizeMs]
            IN [users |-> [us1 EXCEPT ![sessionId] = pushed],
                result |-> [allowed |-> TRUE,
                            remaining |-> limit - Len(pushed.requests),
                            resetTime |-> pushed.resetTime,
                            requestCount |-> Len(pushed.requests),
                            limit |-> limit]]

\* RateLimiter.getStatus(sessionId)
getStatus(us, limit, sessionId, t) ==
    LET us1 == getUserData(us, sessionId, t)
        userData == cleanOldRequests(us1[sessionId], t)
    IN [users |-> [us1 EXCEPT ![sessionId] = userData],
        result |-> [allowed |-> Len(userData.requests) < limit,
                    remaining |-> limit - Len(userData.requests),
                    resetTime |-> userData.resetTime,
                    requestCount |-> Len(userData.requests),
                    limit |-> limit]]

\* RateLimiter.wouldAllow(sessionId)
wouldAllow(us, limit, sessionId, t) ==
    LET us1 == getUserData(us, sessionId, t)
        tempUserData == cleanOldRequests(us1[sessionId], t)
        rem == limit - Len(tempUserData.requests)
    IN [users |-> us1,
        result |-> [allowed |-> Len(tempUserData.requests) < limit,
                    remaining |-> IF rem > 0 THEN rem ELSE 0,
                    resetTime |-> tempUserData.resetTime,
                    requestCount |-> Len(tempUserData.requests),
                    limit |-> limit]]

\* a reset that clears the whole map, as resetAll does
resetUser_all(us, sessionId) == [x \in {} |-> <<>>]

\* RateLimiter.resetUser(sessionId)
resetUser(us, sessionId) == [x \in DOMAIN us \ {sessionId} |-> us[x]]

\* RateLimiter.getStats(): every record is pruned in place
getStats(us, t) == [x \in DOMAIN us |-> cleanOldRequests(us[x], t)]

\* RateLimiter.cleanup(): prune every record, delete the idle ones
cleanup(us, t) ==
    LET pruned == [x \in DOMAIN us |-> cleanOldRequests(us[x], t)]
        keep == {x \in DOMAIN us :
                    ~(Len(pruned[x].requests) = 0 /\ pruned[x].resetTime < t)}
    IN [x \in keep |-> pruned[x]]

\* ------------------------------------------------------ WorkersRateLimiter
\* WorkersRateLimiter.checkLimit(sessionId)
workersCheckLimit(reqs, limit, sessionId, t) ==
    LET windowStart == t - WindowSizeMs
        sessionRequests == IF sessionId \in DOMAIN reqs THEN reqs[sessionId] ELSE <<>>
        recentRequests == SelectSeq(sessionRequests, LAMBDA timestamp: InWindow(timestamp, windowStart))
    IN IF LimitReached(Len(recentRequests), limit)
       THEN [requests |-> reqs,
             result |-> [allowed |-> FALSE, remaining |-> 0,
                         resetTime |-> SeqMin(recentRequests) + WindowSizeMs,
                         requestCount |-> Len(recentRequests),
                         limit |-> limit]]
       ELSE LET pushed == Append(recentRequests, t)
            IN [requests |-> [x \in DOMAIN reqs \cup {sessionId} |->
                                IF x = sessionId THEN pushed ELSE reqs[x]],
                result |-> [allowed |-> TRUE,
                            remaining |-> limit - Len(pushed),
                            resetTime |-> t + WindowSizeMs,
                            requestCount |-> Len(pushed),
                            limit |-> limit]]

\* ------------------------------------------------------------ tool calls
\* getSessionId() of index.js
StdioSession == "claude-desktop-session"
\* peer addresses (req.ip, cf-connecting-ip)
Peers == {"ip1", "ip2"}
Clients == Peers \cup {StdioSession}

Tools == {"match_resume", "match_jobs_to_apply"}
ToolNames == Tools \cup {"no_such_tool"}

\* ---- arguments of a tool call
\* validator.js CONFIG
MIN_RESUME_LENGTH == 500
MAX_RESUME_LENGTH == 15000
\* index.js CONFIG ("to match validator.js")
MIN_FILE_SIZE == 50
MAX_FILE_SIZE == 50000
\* tools.js inputSchema.properties.resume_text
SchemaMinLength == 500
SchemaMaxLength == 15000
\* validateMeaningfulContent: fewer words than this is an error
MinWords == 10
\* /(.)\1{20,}/ matches a run of this many identical characters
RepeatedRun == 21
\* validateDateRange: a span of more days than this is an error
MaxRangeDays == 365

\* a resume_text is undefined, the empty string, or a text seen through what
\* the validators read of it: its length, its length after whitespace runs
\* are collapsed and the ends trimmed, its number of words, its longest run
\* of one character
Lengths == {1, 49, 50, 499, 500, 15000, 15001, 50001}
WordCounts == {1, 9, 10}
Runs == {1, 20, 21}
AbsentText == [kind |-> "absent", length |-> 0, normalized |-> 0, words |-> 0, run |-> 0]
EmptyText == [kind |-> "empty", length |-> 0, normalized |-> 0, words |-> 0, run |-> 0]
Texts ==
    {AbsentText, EmptyText} \cup
    {t \in [kind : {"text"}, length : Lengths, normalized : Lengths,
            words : WordCounts, run : Runs] :
        /\ t.normalized <= t.length
        /\ t.run <= t.length
        /\ 2 * t.words - 1 <= t.normalized}

\* a date argument is undefined or '', a string that is not YYYY-MM-DD, or a
\* calendar day (numbered from 2020-01-01, inside the accepted years)
Days == {0, 1, 365, 366, 367}
AbsentDate == [kind |-> "absent", day |-> 0]
Dates == {AbsentDate, [kind |-> "malformed", day |-> 0]} \cup [kind : {"date"}, day : Days]

\* a string argument that was not given
Undefined == "undefined"
\* values of the optional string arguments
ExperienceValues == {Undefined, "5", "51"}
KeywordValues == {Undefined, "python"}
LocationValues == {Undefined, " Austin "}
SortByValues == {Undefined, "date", "DATE", "newest"}
\* page is undefined or a number
AbsentPage == [kind |-> "absent", n |-> 0]
PageValues == {AbsentPage} \cup [kind : {"number"}, n : {0, 2, 1001}]

\* String.prototype.trim on the values above
trim(str) == IF str = " Austin " THEN "Austin" ELSE str
\* String.prototype.toLowerCase on the values above
toLowerCase(str) == IF str = "DATE" THEN "date" ELSE str
\* parseInt on the values above (-1 stands for NaN)
parseInt(str) == IF str = "5" THEN 5 ELSE IF str = "51" THEN 51 ELSE -1
\* Number.prototype.toString on the page numbers above
toString(n) == IF n = 1 THEN "1" ELSE IF n = 2 THEN "2" ELSE IF n = 1001 THEN "1001" ELSE "0"
\* a || b on strings: undefined and '' are falsy
OrElse(value, fallback) == IF value \in {Undefined, ""} THEN fallback ELSE value

\* validator.js CONFIG.VALID_SORT_OPTIONS
VALID_SORT_OPTIONS == {"similarity", "date"}

OkText == [kind |-> "text", length |-> 500, normalized |-> 500, words |-> 10, run |-> 1]
ShortText == [kind |-> "text", length |-> 499, normalized |-> 499, words |-> 10, run |-> 1]

\* extra: an argument the schema does not declare is present.  The date
\* arguments and the other optional arguments are varied separately.
AllArguments ==
    [resume_text : Texts, start_date : Dates, end_date : Dates, extra : BOOLEAN,
     user_experience : {Undefined}, keywords : {Undefined}, location : {Undefined},
     page : {AbsentPage}, sort_by : {Undefined}]
    \cup
    [resume_text : {ShortText, OkText}, start_date : {AbsentDate}, end_date : {AbsentDate},
     extra : {FALSE}, user_experience : ExperienceValues, keywords : KeywordValues,
     location : LocationValues, page : PageValues, sort_by : SortByValues]

\* validator.js validateRequiredParameters
validateRequiredParameters(args) ==
    IF args.resume_text.kind \in {"absent", "empty"} THEN {"Resume text is required"} ELSE {}

\* validator.js validateMeaningfulContent
validateMeaningfulContent(text) ==
    IF text.normalized < MIN_RESUME_LENGTH
    THEN {"insufficient content"}
    ELSE (IF text.run >= RepeatedRun THEN {"suspicious repeated characters"} ELSE {})
         \cup (IF text.words < MinWords THEN {"at least 10 words"} ELSE {})

\* validator.js validateResumeText
validateResumeText(text) ==
    (IF text.length < MIN_RESUME_LENGTH THEN {"too short"} ELSE {})
    \cup (IF text.length > MAX_RESUME_LENGTH THEN {"too long"} ELSE {})
    \cup validateMeaningfulContent(text)

\* validator.js validateDate
validateDate(date, fieldName) ==
    IF date.kind = "malformed" THEN {fieldName \o " must be in YYYY-MM-DD format"} ELSE {}

\* a range check that also refuses a span of exactly one year
validateDateRange_inclusive(startDate, endDate) ==
    IF startDate.kind = "date" /\ endDate.kind = "date"
    THEN (IF startDate.day >= endDate.day THEN {"Start date must be before end date"} ELSE {})
         \cup (IF endDate.day - startDate.day >= MaxRangeDays
               THEN {"Date range is too long"} ELSE {})
    ELSE {}

\* validator.js validateDateRange (an Invalid Date compares false with everything)
validateDateRange(startDate, endDate) ==
    IF startDate.kind = "date" /\ endDate.kind = "date"
    THEN (IF startDate.day >= endDate.day THEN {"Start date must be before end date"} ELSE {})
         \cup (IF endDate.day - startDate.day > MaxRangeDays
               THEN {"Date range is too long"} ELSE {})
    ELSE {}

\* validator.js validateUserExperience
validateUserExperience(experience) ==
    LET experienceNum == parseInt(experience)
    IN IF experienceNum = -1 THEN {"User experience must be a valid number"}
       ELSE IF experienceNum > 50 THEN {"User experience seems unusually high"}
       ELSE {}

\* validator.js validateKeywords, for a string without commas
validateKeywords(keywords) ==
    IF Len(keywords) > 500 THEN {"Keywords string is too long"}
    ELSE LET keyword == trim(keywords)
         IN IF Len(keyword) = 0 THEN {"At least one keyword is required"}
            ELSE IF Len(keyword) < 2 THEN {"Keyword is too short"}
            ELSE IF Len(keyword) > 50 THEN {"Keyword is too long"}
            ELSE {}

\* validator.js validateLocation, for a string without commas
validateLocation(location) ==
    IF Len(location) > 5000 THEN {"Location string is too long"}
    ELSE LET loc == trim(location)
         IN IF Len(loc) = 0 THEN {"At least one location is required"}
            ELSE IF Len(loc) < 2 THEN {"Location is too short"}
            ELSE IF Len(loc) > 50 THEN {"Location is too long"}
            ELSE {}

\* validator.js validatePage
validatePage(page) ==
    IF page.n < 1 THEN {"Page must be 1 or greater"}
    ELSE IF page.n > 1000 THEN {"Page number is too high"}
    ELSE {}

\* validator.js validateSortBy
validateSortBy(sortBy) ==
    IF toLowerCase(sortBy) \notin VALID_SORT_OPTIONS
    THEN {"Sort_by must be one of: similarity, date"} ELSE {}

\* validator.js validateOptionalParameters
validateOptionalParameters(args) ==
    (IF args.user_experience \notin {Undefined, ""}
     THEN validateUserExperience(args.user_experience) ELSE {})
    \cup (IF args.keywords \notin {Undefined, ""} THEN validateKeywords(args.keywords) ELSE {})
    \cup (IF args.location \notin {Undefined, ""} THEN validateLocation(args.location) ELSE {})
    \cup (IF args.page.kind # "absent" THEN validatePage(args.page) ELSE {})
    \cup (IF args.sort_by \notin {Undefined, ""} THEN validateSortBy(args.sort_by) ELSE {})
    \cup (IF args.start_date.kind # "absent" THEN validateDate(args.start_date, "start_date") ELSE {})
    \cup (IF args.end_date.kind # "absent" THEN validateDate(args.end_date, "end_date") ELSE {})
    \cup (IF args.start_date.kind # "absent" /\ args.end_date.kind # "absent"
          THEN validateDateRange(args.start_date, args.end_date) ELSE {})

\* validator.js validateInputs: undeclared arguments are ignored
validateInputs(args) ==
    LET errors == validateRequiredParameters(args)
                  \cup (IF args.resume_text.kind = "text"
                        THEN validateResumeText(args.resume_text) ELSE {})
                  \cup validateOptionalParameters(args)
    IN [valid |-> errors = {}, errors |-> errors]

\* tools.js validateToolParameters: the length of resume_text is not checked
validateToolParameters(name, args) ==
    IF name \notin Tools THEN [valid |-> FALSE, errors |-> {"Unknown tool"}]
    ELSE LET hasStartDate == args.start_date.kind # "absent"
             hasEndDate == args.end_date.kind # "absent"
             errors ==
                (IF args.resume_text.kind = "absent"
                 THEN {"Missing required parameter: resume_text"} ELSE {})
                \cup (IF hasStartDate /\ ~hasEndDate
                      THEN {"When start_date is provided, end_date must also be provided"} ELSE {})
                \cup (IF hasEndDate /\ ~hasStartDate
                      THEN {"When end_date is provided, start_date must also be provided"} ELSE {})
                \cup (IF args.start_date.kind = "date" /\ args.end_date.kind = "date"
                         /\ args.start_date.day >= args.end_date.day
                      THEN {"start_date must be before end_date"} ELSE {})
                \cup (IF args.extra THEN {"Unknown parameter"} ELSE {})
                \cup (IF args.page.kind # "absent" THEN {"Unknown parameter: page"} ELSE {})
                \cup (IF args.sort_by \notin {Undefined, ""}
                         /\ args.sort_by \notin VALID_SORT_OPTIONS
                      THEN {"Parameter sort_by must be one of: similarity, date"} ELSE {})
                \cup (IF args.start_date.kind = "malformed"
                      THEN {"Parameter start_date format is invalid"} ELSE {})
                \cup (IF args.end_date.kind = "malformed"
                      THEN {"Parameter end_date format is invalid"} ELSE {})
         IN [valid |-> errors = {}, errors |-> errors]

\* the tool calls the front-ends are driven with: no resume_text, a text
\* below the minimum length, a well-formed resume, and a well-formed resume
\* with more arguments: an undeclared one, a start_date only, or an
\* upper-case sort_by with a page and a location with blanks around it
PlainArguments(text) ==
    [resume_text |-> text, start_date |-> AbsentDate, end_date |-> AbsentDate,
     extra |-> FALSE, user_experience |-> Undefined, keywords |-> Undefined,
     location |-> Undefined, page |-> AbsentPage, sort_by |-> Undefined]
Arguments ==
    {PlainArguments(AbsentText), PlainArguments(ShortText), PlainArguments(OkText),
     [PlainArguments(OkText) EXCEPT !.extra = TRUE],
     [PlainArguments(OkText) EXCEPT !.start_date = [kind |-> "date", day |-> 0]],
     [PlainArguments(OkText) EXCEPT !.sort_by = "DATE",
                                    !.page = [kind |-> "number", n |-> 2],
                                    !.location = " Austin "]}

\* CONFIG.RATE_LIMIT_PER_MINUTE: parseInt(value) || default
ConfigRateLimit(value) == IF value = 0 THEN RequestsPerMinute ELSE value

\* globalThis.RATE_LIMIT_PER_MINUTE of the worker module: a module worker
\* gets its variables in the env argument of fetch, globalThis carries none
WorkerGlobalLimit == 0

\* ---- documents (artifact envelopes)
NoDoc == [kind |-> "none", title |-> "", quota |-> 0, remaining |-> 0, limit |-> 0]
formatRateLimitError(rl, quota) ==
    [kind |-> "rate_limit", title |-> "Rate Limit Exceeded",
     quota |-> quota, remaining |-> rl.remaining, limit |-> rl.limit]
formatValidationError ==
    [kind |-> "validation", title |-> "Input Validation Failed",
     quota |-> 0, remaining |-> 0, limit |-> 0]
ErrorDoc(title) ==
    [kind |-> "error", title |-> title, quota |-> 0, remaining |-> 0, limit |-> 0]
ResultDoc(kind, remaining) ==
    [kind |-> kind, title |-> "", quota |-> 0, remaining |-> remaining, limit |-> 0]

\* ---- backend outcomes
ErrorStatuses == {400, 401, 413, 422, 500, 503}
\* bodies of a non-2xx response: a JSON object with or without `detail`,
\* the JSON value null, text that is not JSON
ErrorBodies == {"object_detail", "object_plain", "null", "text"}
\* bodies of a 2xx response: a result with jobs, a result with none, JSON
\* null, text that is not JSON
OkBodies == {"matches", "no_matches", "null", "text"}
BackendOutcomes ==
    [kind : {"http"}, status : ErrorStatuses, body : ErrorBodies]
    \cup [kind : {"http"}, status : {200}, body : OkBodies]
    \cup [kind : {"failure"}, status : {0}, body : {"none"}]

\* callBackendAPI after the fetch settles: the value it returns or the
\* error it throws
callBackendAPI(o) ==
    IF o.kind = "failure"
    THEN [thrown |-> TRUE, backendError |-> FALSE, status |-> 0, data |-> "none"]
    ELSE IF o.status # 200
    THEN [thrown |-> TRUE, backendError |-> TRUE, status |-> o.status,
          data |-> IF o.body = "text" THEN "object_detail" ELSE o.body]
    ELSE IF o.body = "text"
    THEN [thrown |-> TRUE, backendError |-> FALSE, status |-> 0, data |-> "none"]
    ELSE [thrown |-> FALSE, backendError |-> FALSE, status |-> 200, data |-> o.body]

\* formatError(error): reading error.data.detail throws when data is null
formatErrorThrows(e) ==
    e.backendError /\ e.status \in {400, 422} /\ e.data = "null"
formatError(e) ==
    ErrorDoc(IF ~e.backendError THEN "Request Failed"
             ELSE CASE e.status = 401 -> "Authentication Error"
                    [] e.status = 400 -> "File Processing Error"
                    [] e.status = 413 -> "File Too Large"
                    [] e.status = 422 -> "Invalid Parameters"
                    [] e.status = 500 -> "Server Error"
                    [] OTHER -> "Request Failed")

GenericError == [thrown |-> TRUE, backendError |-> FALSE, status |-> 0, data |-> "none"]

\* a parsed 2xx body: the number of jobs on the returned page and the
\* total_matches figure
Results == [matches : 0..MaxJobs, total_matches : 0..MaxJobs]
ResultData(body) ==
    IF body = "no_matches" THEN [matches |-> 0, total_matches |-> 0]
    ELSE [matches |-> 1, total_matches |-> 1]

\* the header line of the index table, the same in both generators
IndexTableHeader ==
    <<"#", "Company", "Position", "Score", "Location", "Experience",
      "First Published At", "Apply">>
NoTable == [header |-> <<>>, rows |-> <<>>]

\* markdownFormatter.js generateJobMatcherMarkdown: the index table, a row
\* per job with the job fields its cells print
generateJobMatcherMarkdown(jobs) ==
    [header |-> IndexTableHeader,
     rows |-> [index \in 1..jobs |->
                [rank |-> index,
                 cells |-> <<"index", "company", "title", "match", "location",
                             "experience", "url">>]]]

\* markdownFormatter.js generateJobIndexTableMarkdown: the index table
generateJobIndexTableMarkdown(jobs) ==
    [header |-> IndexTableHeader,
     rows |-> [index \in 1..jobs |->
                [rank |-> index,
                 cells |-> <<"index", "company", "title", "match", "location",
                             "experience", "firstPublishedAt", "url">>]]]

\* markdownFormatter.js formatMarkdownResponse: the document, its index
\* table and metadata.total_matches
formatMarkdownResponse(data, remainingQuota) ==
    [doc |-> ResultDoc(IF data.matches = 0 THEN "no_matches" ELSE "full", remainingQuota),
     table |-> IF data.matches = 0 THEN NoTable ELSE generateJobMatcherMarkdown(data.matches),
     total_matches |-> data.total_matches]

\* markdownFormatter.js formatTableOnlyMarkdownResponse
formatTableOnlyMarkdownResponse(data, remainingQuota) ==
    [doc |-> ResultDoc(IF data.matches = 0 THEN "no_matches" ELSE "index", remainingQuota),
     table |-> IF data.matches = 0 THEN NoTable ELSE generateJobIndexTableMarkdown(data.matches),
     total_matches |-> data.total_matches]

\* formatMarkdownResponse / formatTableOnlyMarkdownResponse: destructuring
\* null throws; an empty matches list selects the no-matches document
RenderThrows(data) == data = "null"
Render(handler, data, remaining) ==
    IF handler = "handleMatchResumeCall"
    THEN formatMarkdownResponse(ResultData(data), remaining).doc
    ELSE formatTableOnlyMarkdownResponse(ResultData(data), remaining).doc

\* the part of a tool handler after `await this.callBackendAPI(args)`:
\* how the promise of the handler settles
handlerSettle(handler, remaining, o) ==
    LET r == callBackendAPI(o)
        e == IF r.thrown THEN r ELSE GenericError
    IN IF ~r.thrown /\ ~RenderThrows(r.data)
       THEN [settled |-> "resolved", doc |-> Render(handler, r.data, remaining)]
       ELSE IF formatErrorThrows(e)
       THEN [settled |-> "rejected", doc |-> NoDoc]
       ELSE [settled |-> "resolved", doc |-> formatError(e)]

\* a handler that goes on to the backend although validation failed
handlerStart_unvalidated(rl, args, quota, hasToken) ==
    IF ~rl.allowed
    THEN [step |-> "return", doc |-> formatRateLimitError(rl, quota),
          trace |-> <<"ratelimit:deny">>]
    ELSE IF ~hasToken
    THEN [step |-> "return", doc |-> formatError(GenericError),
          trace |-> <<"ratelimit:ok", IF validateInputs(args).valid THEN "validate:ok" ELSE "validate:fail">>]
    ELSE [step |-> "await", doc |-> NoDoc,
          trace |-> <<"ratelimit:ok", IF validateInputs(args).valid THEN "validate:ok" ELSE "validate:fail",
                      "backend">>]

\* the part of a tool handler before the await: rate limit, validation,
\* and (worker) the secret lookup of callBackendAPI
handlerStart(rl, args, quota, hasToken) ==
    IF ~rl.allowed
    THEN [step |-> "return", doc |-> formatRateLimitError(rl, quota),
          trace |-> <<"ratelimit:deny">>]
    ELSE IF ~validateInputs(args).valid
    THEN [step |-> "return", doc |-> formatValidationError,
          trace |-> <<"ratelimit:ok", "validate:fail">>]
    ELSE IF ~hasToken
    THEN [step |-> "return", doc |-> formatError(GenericError),
          trace |-> <<"ratelimit:ok", "validate:ok">>]
    ELSE [step |-> "await", doc |-> NoDoc,
          trace |-> <<"ratelimit:ok", "validate:ok", "backend">>]

\* validator.js sanitizeParameters
sanitizeParameters(args) ==
    LET trimmed == [args EXCEPT !.user_experience = trim(@), !.keywords = trim(@),
                                !.location = trim(@), !.sort_by = trim(@)]
        emptied == [trimmed EXCEPT
                        !.resume_text = IF @.kind = "empty" THEN AbsentText ELSE @,
                        !.user_experience = IF @ = "" THEN Undefined ELSE @,
                        !.keywords = IF @ = "" THEN Undefined ELSE @,
                        !.location = IF @ = "" THEN Undefined ELSE @,
                        !.sort_by = IF @ = "" THEN Undefined ELSE @]
    IN [emptied EXCEPT !.sort_by = IF @ # Undefined THEN toLowerCase(@) ELSE @]

\* callBackendAPI: the multipart form it sends (a date field of kind
\* "absent" is the empty string); posts counts the fetch calls made with it
formData(args) ==
    [posts |-> 1,
     file |-> "resume.txt",
     user_experience |-> OrElse(args.user_experience, ""),
     keywords |-> OrElse(args.keywords, ""),
     location |-> OrElse(args.location, ""),
     start_date |-> args.start_date,
     end_date |-> args.end_date,
     page |-> toString(IF args.page.kind = "absent" \/ args.page.n = 0 THEN 1 ELSE args.page.n),
     sort_by |-> OrElse(args.sort_by, "similarity")]
NoForm == [posts |-> 0, file |-> "", user_experience |-> "", keywords |-> "",
           location |-> "", start_date |-> AbsentDate, end_date |-> AbsentDate,
           page |-> "", sort_by |-> ""]

\* a client that tries a failed request a second time
fetchAgain_once(o, posts) == callBackendAPI(o).thrown /\ posts < 2

\* callBackendAPI has one fetch and no loop around it: whatever the outcome,
\* it returns or throws and the request is not sent again
fetchAgain(o, posts) == FALSE

\* ---- responses
\* the id member of a JSON-RPC request; NullId is JSON null, NoId marks a
\* message that has no JSON-RPC envelope
RequestIds == {0, 1}
NullId == -1
NoId == -2

\* the id member of the JSON-RPC message a front-end answers with: `id` next
\* to a result, `req.body?.id || null` in the catch block of start-http.js,
\* null in the catch block of the worker
EnvelopeId(route, channel, id) ==
    IF route \notin {"http_rpc", "worker_rpc"} \/ channel = "empty_200" THEN NoId
    ELSE IF channel = "result" THEN id
    ELSE IF route = "http_rpc" THEN (IF id = 0 THEN NullId ELSE id)
    ELSE NullId

NoResp == [route |-> "none", peer |-> StdioSession, name |-> "match_resume",
           rank |-> 0, channel |-> "none", error |-> "", doc |-> NoDoc,
           trace |-> <<>>, backend |-> "none", form |-> NoForm,
           request |-> NoId, id |-> NoId]

\* rank: the position of the call among the tool calls of its peer that were
\* handed to the limiter in the trailing window (0: refused before that);
\* request: the id of the JSON-RPC request, id: the id of the answer;
\* backend: "none" when the response was written without a backend call,
\* else how the fetch settled ("http" or "failure"); form: what the call
\* sent to the backend
Response(route, peer, name, rank, channel, error, doc, trace, backend, form, id) ==
    [route |-> route, peer |-> peer, name |-> name, rank |-> rank,
     channel |-> channel, error |-> error, doc |-> doc, trace |-> trace,
     backend |-> backend, form |-> form,
     request |-> id, id |-> EnvelopeId(route, channel, id)]

\* the channel in which a front-end reports a failure that is no document
ErrorChannel(route) ==
    CASE route = "stdio" -> "rpc_error"
      [] route = "http_rpc" -> "rpc_error"
      [] route = "http_rest" -> "http_500"
      [] route = "worker_rpc" -> "http_500"
      [] route = "worker_rest" -> "http_500"

\* ---- the value handed to a validator or formatter, and what it returned
NoOutcome == [kind |-> "none", status |-> 0, body |-> "none"]
NoData == [matches |-> 0, total_matches |-> 0]
NoArgs == [resume_text |-> AbsentText, start_date |-> AbsentDate,
           end_date |-> AbsentDate, extra |-> FALSE,
           user_experience |-> Undefined, keywords |-> Undefined, location |-> Undefined,
           page |-> AbsentPage, sort_by |-> Undefined]
NoInput == [kind |-> "none", args |-> NoArgs, outcome |-> NoOutcome, data |-> NoData]
NoOutput == [fn |-> "none", name |-> "", valid |-> TRUE, errors |-> {}, thrown |-> FALSE,
             doc |-> NoDoc, total_matches |-> 0, form |-> NoForm, table |-> NoTable]

\* ------------------------------------------------- limiter harness (Spec)
EmptyMap == [x \in {} |-> <<>>]

\* number of entries of a timestamp log inside the half-open window (t - window, t]
CountIn(log, t) ==
    Cardinality({i \in 1..Len(log) : log[i] > t - WindowSizeMs /\ log[i] <= t})

\* the oldest entry of a timestamp log inside the window (t - window, t], -1 if none
Oldest(log, t) ==
    LET inside == {log[i] : i \in {j \in 1..Len(log) : log[j] > t - WindowSizeMs /\ log[j] <= t}}
    IN IF inside = {} THEN -1 ELSE CHOOSE m \in inside : \A x \in inside : m <= x

NotDenied == [oldest |-> -1, resetTime |-> -1]

NoCall == [op |-> "none", session |-> "s1", time |-> 0, prior |-> 0,
           oldest |-> -1, lockedSince |-> -1, promised |-> -1,
           allowed |-> TRUE, remaining |-> 0, resetTime |-> 0,
           requestCount |-> 0, limit |-> 0]

Returned(op, s, res) ==
    [op |-> op, session |-> s, time |-> now, prior |-> CountIn(allowedLog[s], now),
     oldest |-> Oldest(allowedLog[s], now), lockedSince |-> denied[s].oldest,
     promised |-> denied[s].resetTime,
     allowed |-> res.allowed, remaining |-> res.remaining, resetTime |-> res.resetTime,
     requestCount |-> res.requestCount, limit |-> res.limit]

LimInit ==
    /\ now = 0
    /\ impl \in Impls
    /\ users = EmptyMap
    /\ requests = EmptyMap
    /\ last = NoCall
    /\ allowedLog = [s \in Sessions |-> <<>>]
    /\ denied = [s \in Sessions |-> NotDenied]
    /\ transport = "none"
    /\ secret = TRUE
    /\ envLimit = 0
    /\ pending = {}
    /\ resp = NoResp
    /\ callLog = [p \in Clients |-> <<>>]
    /\ input = NoInput
    /\ output = NoOutput

\* the clock advances (Date.now() is read at non-decreasing values)
Tick ==
    /\ now < MaxTime
    /\ last = NoCall
    /\ now' = now + 1
    /\ last' = NoCall
    /\ UNCHANGED <<impl, users, requests, allowedLog, denied, srvVars>>

CallCheckLimit(s) ==
    /\ impl = "RateLimiter"
    /\ last = NoCall
    /\ LET r == checkLimit(users, RequestsPerMinute, s, now)
       IN /\ users' = r.users
          /\ last' = Returned("checkLimit", s, r.result)
          /\ allowedLog' = IF r.result.allowed
                           THEN [allowedLog EXCEPT ![s] = Append(@, now)]
                           ELSE allowedLog
          /\ denied' = [denied EXCEPT ![s] =
                            IF r.result.allowed THEN NotDenied
                            ELSE [oldest |-> Oldest(allowedLog[s], now),
                                  resetTime |-> r.result.resetTime]]
    /\ UNCHANGED <<now, impl, requests, srvVars>>

CallWorkersCheckLimit(s) ==
    /\ impl = "WorkersRateLimiter"
    /\ last = NoCall
    /\ LET r == workersCheckLimit(requests, RequestsPerMinute, s, now)
       IN /\ requests' = r.requests
          /\ last' = Returned("checkLimit", s, r.result)
          /\ allowedLog' = IF r.result.allowed
                           THEN [allowedLog EXCEPT ![s] = Append(@, now)]
                           ELSE allowedLog
          /\ denied' = [denied EXCEPT ![s] =
                            IF r.result.allowed THEN NotDenied
                            ELSE [oldest |-> Oldest(allowedLog[s], now),
                                  resetTime |-> r.result.resetTime]]
    /\ UNCHANGED <<now, impl, users, srvVars>>

CallWouldAllow(s) ==
    /\ impl = "RateLimiter"
    /\ last = NoCall
    /\ LET r == wouldAllow(users, RequestsPerMinute, s, now)
       IN /\ users' = r.users
          /\ last' = Returned("wouldAllow", s, r.result)
    /\ UNCHANGED <<now, impl, requests, allowedLog, denied, srvVars>>

CallGetStatus(s) ==
    /\ impl = "RateLimiter"
    /\ last = NoCall
    /\ LET r == getStatus(users, RequestsPerMinute, s, now)
       IN /\ users' = r.users
          /\ last' = Returned("getStatus", s, r.result)
    /\ UNCHANGED <<now, impl, requests, allowedLog, denied, srvVars>>

\* the histories of a session start over when its record is deleted
CallResetUser(s) ==
    /\ impl = "RateLimiter"
    /\ last = NoCall
    /\ users' = resetUser(users, s)
    /\ last' = [NoCall EXCEPT !.op = "resetUser", !.session = s, !.time = now]
    /\ allowedLog' = [allowedLog EXCEPT ![s] = <<>>]
    /\ denied' = [denied EXCEPT ![s] = NotDenied]
    /\ UNCHANGED <<now, impl, requests, srvVars>>

CallGetStats ==
    /\ impl = "RateLimiter"
    /\ last = NoCall
    /\ users' = getStats(users, now)
    /\ last' = NoCall
    /\ UNCHANGED <<now, impl, requests, allowedLog, denied, srvVars>>

CallCleanup ==
    /\ impl = "RateLimiter"
    /\ last = NoCall
    /\ users' = cleanup(users, now)
    /\ last' = NoCall
    /\ UNCHANGED <<now, impl, requests, allowedLog, denied, srvVars>>

\* the caller takes the returned value before it does anything else
ResultRead ==
    /\ last # NoCall
    /\ last' = NoCall
    /\ UNCHANGED <<now, impl, users, requests, allowedLog, denied, srvVars>>

LimNext ==
    \/ Tick
    \/ ResultRead
    \/ \E s \in Sessions : CallCheckLimit(s)
    \/ \E s \in Sessions : CallWorkersCheckLimit(s)
    \/ \E s \in Sessions : CallWouldAllow(s)
    \/ \E s \in Sessions : CallGetStatus(s)
    \/ \E s \in Sessions : CallResetUser(s)
    \/ CallGetStats
    \/ CallCleanup

Init == LimInit
Next == LimNext
Spec == Init /\ [][Next]_vars

\* ------------------------------------------------ front-ends (SpecServer)
Transports == {"stdio", "http", "worker"}
\* values of RATE_LIMIT_PER_MINUTE in the environment
EnvLimits == {0, 1}

\* index.js CONFIG.API_TOKEN throws at module load when the secret is
\* missing; the worker reads the secret per request
Running == transport = "worker" \/ secret

\* new WorkersJobMatcherServer(): a server with a limiter of its own
newWorkersJobMatcherServer(reqs) == EmptyMap

HandlerOf(name) ==
    IF name = "match_resume" THEN "handleMatchResumeCall" ELSE "handleMatchJobsToApplyCall"

Logged(peer) == [callLog EXCEPT ![peer] = Append(@, now)]

Rank(peer) == CountIn(Logged(peer)[peer], now)

Suspended(route, peer, name, handler, remaining, trace, form, id) ==
    [route |-> route, peer |-> peer, name |-> name,
     handler |-> handler, remaining |-> remaining, trace |-> trace, rank |-> Rank(peer),
     form |-> form, id |-> id]

\* number of tool calls handed to the limiters so far
TotalCalls == Len(callLog["ip1"]) + Len(callLog["ip2"]) + Len(callLog[StdioSession])

\* a client numbers its JSON-RPC requests from 0: a tools/call carries id 0
\* until a call of the peer got through to the limiter, and id 1 after that
CallId(peer) == IF callLog[peer] = <<>> THEN 0 ELSE 1

\* peers are interchangeable: ip2 names the second peer that shows up
Receive(peer) ==
    /\ Running
    /\ resp = NoResp
    /\ peer = "ip2" => callLog["ip1"] # <<>>
    /\ TotalCalls < MaxRequests

\* a tool handler of index.js entered for a request: the limiter is the
\* module singleton, the session the fixed constant
NodeHandler(route, peer, name, handler, args, us, prefix, log, id) ==
    LET rl == checkLimit(us, RequestsPerMinute, StdioSession, now)
        st == handlerStart(rl.result, args, ConfigRateLimit(envLimit), TRUE)
    IN /\ users' = rl.users
       /\ callLog' = log
       /\ IF st.step = "return"
          THEN /\ resp' = Response(route, peer, name, Rank(peer),
                                   "result", "", st.doc, prefix \o st.trace, "none", NoForm, id)
               /\ UNCHANGED pending
          ELSE /\ Cardinality(pending) < MaxPending
               /\ pending' = pending \cup
                    {Suspended(route, peer, name, handler, rl.result.remaining,
                               prefix \o st.trace, formData(args), id)}
               /\ resp' = NoResp

\* a tool handler of the worker entered for a request
WorkerHandler(route, peer, name, args, reqs, id) ==
    LET rl == workersCheckLimit(reqs, ConfigRateLimit(WorkerGlobalLimit), peer, now)
        st == handlerStart(rl.result, args, ConfigRateLimit(WorkerGlobalLimit), secret)
    IN /\ requests' = rl.requests
       /\ callLog' = Logged(peer)
       /\ IF st.step = "return"
          THEN /\ resp' = Response(route, peer, name, Rank(peer),
                                   "result", "", st.doc, <<"schema:ok">> \o st.trace, "none", NoForm, id)
               /\ UNCHANGED pending
          ELSE /\ Cardinality(pending) < MaxPending
               /\ pending' = pending \cup
                    {Suspended(route, peer, name, HandlerOf(name), rl.result.remaining,
                               <<"schema:ok">> \o st.trace, formData(args), id)}
               /\ resp' = NoResp

\* a request refused by the front-end before any handler ran
Refuse(route, peer, name, channel, error, trace, id) ==
    /\ resp' = Response(route, peer, name, 0, channel, error, NoDoc, trace, "none", NoForm, id)
    /\ UNCHANGED <<pending, callLog>>

\* index.js: CallToolRequestSchema handler (stdio)
StdioToolsCall(name, args) ==
    /\ transport = "stdio"
    /\ Receive(StdioSession)
    /\ IF name \in Tools
       THEN NodeHandler("stdio", StdioSession, name, HandlerOf(name), args, users,
                        <<>>, Logged(StdioSession), NoId)
       ELSE /\ Refuse("stdio", StdioSession, name, "rpc_error", "unknown_tool", <<>>, NoId)
            /\ UNCHANGED users
    /\ UNCHANGED <<now, impl, requests, last, allowedLog, denied, transport, secret, envLimit, fnVars>>

\* start-http.js: handleMCPRequest, case 'tools/call'
HttpRpcToolsCall(peer, name, args, id) ==
    /\ transport = "http"
    /\ Receive(peer)
    /\ IF name \notin Tools
       THEN /\ Refuse("http_rpc", peer, name, "rpc_error", "unknown_tool", <<>>, id)
            /\ UNCHANGED users
       ELSE IF ~validateToolParameters(name, args).valid
       THEN /\ Refuse("http_rpc", peer, name, "rpc_error", "schema", <<"schema:fail">>, id)
            /\ UNCHANGED users
       ELSE LET rl == checkLimit(users, RequestsPerMinute, peer, now)
            IN IF ~rl.result.allowed
               THEN /\ users' = rl.users
                    /\ callLog' = Logged(peer)
                    /\ resp' = Response("http_rpc", peer, name, Rank(peer), "result", "",
                                        formatRateLimitError(rl.result, ConfigRateLimit(envLimit)),
                                        <<"schema:ok", "ratelimit:deny">>, "none", NoForm, id)
                    /\ UNCHANGED pending
               ELSE IF name = "match_resume"
               THEN NodeHandler("http_rpc", peer, name, "handleMatchResumeCall", args,
                                rl.users, <<"schema:ok", "ratelimit:ok">>, Logged(peer), id)
               ELSE /\ users' = rl.users
                    /\ callLog' = Logged(peer)
                    /\ resp' = Response("http_rpc", peer, name, Rank(peer), "rpc_error",
                                        "not_implemented", NoDoc,
                                        <<"schema:ok", "ratelimit:ok">>, "none", NoForm, id)
                    /\ UNCHANGED pending
    /\ UNCHANGED <<now, impl, requests, last, allowedLog, denied, transport, secret, envLimit, fnVars>>

\* the JSON-RPC methods of POST / other than tools/call: one that returns a
\* result (initialize, tools/list, resources/list and prompts/list do the
\* same), the notification, and one the switch does not know
Methods == {"initialize", "notifications/initialized", "no_such_method"}

\* the switch of POST / for those methods; route is the front-end, channel
\* the one its catch block answers in
RpcMethod(route, channel, peer, method, id) ==
    /\ Receive(peer)
    /\ resp' = IF method = "notifications/initialized"
               THEN Response(route, peer, method, 0, "empty_200", "", NoDoc, <<>>, "none", NoForm, id)
               ELSE IF method = "initialize"
               THEN Response(route, peer, method, 0, "result", "", NoDoc, <<>>, "none", NoForm, id)
               ELSE Response(route, peer, method, 0, channel, "unknown_method", NoDoc, <<>>,
                             "none", NoForm, id)
    /\ UNCHANGED <<pending, callLog>>

\* start-http.js: handleMCPRequest, the other cases
HttpRpcMethod(peer, method, id) ==
    /\ transport = "http"
    /\ RpcMethod("http_rpc", "rpc_error", peer, method, id)
    /\ UNCHANGED <<now, limVars, transport, secret, envLimit, fnVars>>

\* start-http.js: POST /mcp/tools/call
HttpRestToolsCall(peer, name, args) ==
    /\ transport = "http"
    /\ Receive(peer)
    /\ IF name \notin Tools
       THEN /\ Refuse("http_rest", peer, name, "http_400", "unknown_tool", <<>>, NoId)
            /\ UNCHANGED users
       ELSE IF ~validateToolParameters(name, args).valid
       THEN /\ Refuse("http_rest", peer, name, "http_400", "schema", <<"schema:fail">>, NoId)
            /\ UNCHANGED users
       ELSE LET rl == checkLimit(users, RequestsPerMinute, peer, now)
            IN IF ~rl.result.allowed
               THEN /\ users' = rl.users
                    /\ callLog' = Logged(peer)
                    /\ resp' = Response("http_rest", peer, name, Rank(peer), "http_429",
                                        "rate_limit",
                                        formatRateLimitError(rl.result, ConfigRateLimit(envLimit)),
                                        <<"schema:ok", "ratelimit:deny">>, "none", NoForm, NoId)
                    /\ UNCHANGED pending
               ELSE NodeHandler("http_rest", peer, name, "handleMatchResumeCall", args,
                                rl.users, <<"schema:ok", "ratelimit:ok">>, Logged(peer), NoId)
    /\ UNCHANGED <<now, impl, requests, last, allowedLog, denied, transport, secret, envLimit, fnVars>>

\* src/worker.js fetch: POST / with method tools/call
WorkerRpcToolsCall(peer, name, args, id) ==
    /\ transport = "worker"
    /\ Receive(peer)
    /\ LET server == newWorkersJobMatcherServer(requests)
       IN IF name \notin Tools
          THEN /\ Refuse("worker_rpc", peer, name, "http_500", "unknown_tool", <<>>, id)
               /\ requests' = server
          ELSE IF ~validateToolParameters(name, args).valid
          THEN /\ Refuse("worker_rpc", peer, name, "http_500", "schema", <<"schema:fail">>, id)
               /\ requests' = server
          ELSE WorkerHandler("worker_rpc", peer, name, args, server, id)
    /\ UNCHANGED <<now, impl, users, last, allowedLog, denied, transport, secret, envLimit, fnVars>>

\* src/worker.js fetch: POST / with another method; the server object and
\* its limiter are built before the route is looked at
WorkerRpcMethod(peer, method, id) ==
    /\ transport = "worker"
    /\ RpcMethod("worker_rpc", "http_500", peer, method, id)
    /\ requests' = newWorkersJobMatcherServer(requests)
    /\ UNCHANGED <<now, impl, users, last, allowedLog, denied, transport, secret, envLimit, fnVars>>

\* src/worker.js fetch: POST /mcp/tools/call
WorkerRestToolsCall(peer, name, args) ==
    /\ transport = "worker"
    /\ Receive(peer)
    /\ LET server == newWorkersJobMatcherServer(requests)
       IN IF name \notin Tools
          THEN /\ Refuse("worker_rest", peer, name, "http_400", "unknown_tool", <<>>, NoId)
               /\ requests' = server
          ELSE IF ~validateToolParameters(name, args).valid
          THEN /\ Refuse("worker_rest", peer, name, "http_400", "schema", <<"schema:fail">>, NoId)
               /\ requests' = server
          ELSE WorkerHandler("worker_rest", peer, name, args, server, NoId)
    /\ UNCHANGED <<now, impl, users, last, allowedLog, denied, transport, secret, envLimit, fnVars>>

\* the fetch of a suspended tool call settles; the handler and the
\* front-end run to the response
BackendResponds(p, o) ==
    /\ p \in pending
    /\ resp = NoResp
    /\ IF fetchAgain(o, p.form.posts)
       THEN /\ pending' = (pending \ {p}) \cup {[p EXCEPT !.form.posts = @ + 1]}
            /\ resp' = NoResp
       ELSE /\ pending' = pending \ {p}
            /\ LET st == handlerSettle(p.handler, p.remaining, o)
               IN resp' = IF st.settled = "resolved"
                          THEN Response(p.route, p.peer, p.name, p.rank, "result", "",
                                        st.doc, p.trace, o.kind, p.form, p.id)
                          ELSE Response(p.route, p.peer, p.name, p.rank,
                                        ErrorChannel(p.route), "handler_rejected",
                                        NoDoc, p.trace, o.kind, p.form, p.id)
    /\ UNCHANGED <<now, impl, users, requests, last, allowedLog, denied,
                   transport, secret, envLimit, callLog, fnVars>>

\* the response written by the latest step leaves the process, which goes
\* back to its event loop
ResponseSent ==
    /\ resp # NoResp
    /\ resp' = NoResp
    /\ UNCHANGED <<now, limVars, transport, secret, envLimit, pending, callLog, fnVars>>

\* the front-ends are followed over one window of the limiter: their tool
\* calls all read the clock at its initial value
SrvInit ==
    /\ now = 0
    /\ impl = "none"
    /\ users = EmptyMap
    /\ requests = EmptyMap
    /\ last = NoCall
    /\ allowedLog = [s \in Sessions |-> <<>>]
    /\ denied = [s \in Sessions |-> NotDenied]
    /\ transport \in Transports
    /\ secret \in BOOLEAN
    /\ envLimit \in EnvLimits
    \* the worker never reads the variable, a process without secret never serves
    /\ (transport = "worker" \/ ~secret) => envLimit = 0
    /\ pending = {}
    /\ resp = NoResp
    /\ callLog = [p \in Clients |-> <<>>]
    /\ input = NoInput
    /\ output = NoOutput

SrvNext ==
    \/ ResponseSent
    \/ \E name \in ToolNames, args \in Arguments : StdioToolsCall(name, args)
    \/ \E peer \in Peers, name \in ToolNames, args \in Arguments :
          HttpRpcToolsCall(peer, name, args, CallId(peer))
    \/ \E peer \in Peers, name \in ToolNames, args \in Arguments : HttpRestToolsCall(peer, name, args)
    \/ \E peer \in Peers, name \in ToolNames, args \in Arguments :
          WorkerRpcToolsCall(peer, name, args, CallId(peer))
    \/ \E peer \in Peers, name \in ToolNames, args \in Arguments : WorkerRestToolsCall(peer, name, args)
    \/ \E peer \in Peers, method \in Methods, id \in RequestIds : HttpRpcMethod(peer, method, id)
    \/ \E peer \in Peers, method \in Methods, id \in RequestIds : WorkerRpcMethod(peer, method, id)
    \/ \E p \in pending, o \in BackendOutcomes : BackendResponds(p, o)

SpecServer == SrvInit /\ [][SrvNext]_vars

\* ------------------------------- validators and formatters (SpecFunctions)
\* the failed backend exchanges formatError is reached with
FailedOutcomes == {o \in BackendOutcomes : callBackendAPI(o).thrown}

FnInputs ==
    {[NoInput EXCEPT !.kind = "args", !.args = a] : a \in AllArguments}
    \cup {[NoInput EXCEPT !.kind = "outcome", !.outcome = o] : o \in FailedOutcomes}
    \cup {[NoInput EXCEPT !.kind = "result", !.data = d] : d \in Results}

FnInit ==
    /\ now = 0
    /\ impl = "none"
    /\ users = EmptyMap
    /\ requests = EmptyMap
    /\ last = NoCall
    /\ allowedLog = [s \in Sessions |-> <<>>]
    /\ denied = [s \in Sessions |-> NotDenied]
    /\ transport = "none"
    /\ secret = TRUE
    /\ envLimit = 0
    /\ pending = {}
    /\ resp = NoResp
    /\ callLog = [p \in Clients |-> <<>>]
    /\ input \in FnInputs
    /\ output = NoOutput

CallValidateInputs ==
    /\ input.kind = "args"
    /\ output = NoOutput
    /\ LET r == validateInputs(input.args)
       IN output' = [NoOutput EXCEPT !.fn = "validateInputs",
                                     !.valid = r.valid, !.errors = r.errors]
    /\ UNCHANGED <<now, limVars, transport, secret, envLimit, pending, resp, callLog, input>>

CallValidateToolParameters(name) ==
    /\ input.kind = "args"
    /\ output = NoOutput
    /\ LET r == validateToolParameters(name, input.args)
       IN output' = [NoOutput EXCEPT !.fn = "validateToolParameters", !.name = name,
                                     !.valid = r.valid, !.errors = r.errors]
    /\ UNCHANGED <<now, limVars, transport, secret, envLimit, pending, resp, callLog, input>>

\* the catch block of a tool handler: formatError(error)
CallFormatError ==
    /\ input.kind = "outcome"
    /\ output = NoOutput
    /\ LET e == callBackendAPI(input.outcome)
       IN output' = [NoOutput EXCEPT !.fn = "formatError",
                                     !.thrown = formatErrorThrows(e),
                                     !.doc = IF formatErrorThrows(e) THEN NoDoc
                                             ELSE formatError(e)]
    /\ UNCHANGED <<now, limVars, transport, secret, envLimit, pending, resp, callLog, input>>

CallFormatMarkdownResponse ==
    /\ input.kind = "result"
    /\ output = NoOutput
    /\ LET r == formatMarkdownResponse(input.data, 0)
       IN output' = [NoOutput EXCEPT !.fn = "formatMarkdownResponse", !.doc = r.doc,
                                     !.table = r.table, !.total_matches = r.total_matches]
    /\ UNCHANGED <<now, limVars, transport, secret, envLimit, pending, resp, callLog, input>>

CallFormatTableOnlyMarkdownResponse ==
    /\ input.kind = "result"
    /\ output = NoOutput
    /\ LET r == formatTableOnlyMarkdownResponse(input.data, 0)
       IN output' = [NoOutput EXCEPT !.fn = "formatTableOnlyMarkdownResponse", !.doc = r.doc,
                                     !.table = r.table, !.total_matches = r.total_matches]
    /\ UNCHANGED <<now, limVars, transport, secret, envLimit, pending, resp, callLog, input>>

\* callBackendAPI(args) up to the fetch: the form it builds (Buffer.from
\* needs a string)
CallCallBackendAPI ==
    /\ input.kind = "args"
    /\ input.args.resume_text.kind = "text"
    /\ output = NoOutput
    /\ output' = [NoOutput EXCEPT !.fn = "callBackendAPI", !.form = formData(input.args)]
    /\ UNCHANGED <<now, limVars, transport, secret, envLimit, pending, resp, callLog, input>>

FnNext ==
    \/ CallValidateInputs
    \/ CallCallBackendAPI
    \/ \E name \in ToolNames : CallValidateToolParameters(name)
    \/ CallFormatError
    \/ CallFormatMarkdownResponse
    \/ CallFormatTableOnlyMarkdownResponse

SpecFunctions == FnInit /\ [][FnNext]_vars

\* ------------------------------------------------------------------ claims

\* C1: once N checkLimit calls of a session were allowed with timestamps in
\* the trailing window of the current call, that checkLimit returns
\* allowed = false and remaining = 0 (both limiter classes).
C1_DeniedWhenWindowFull ==
    (last.op = "checkLimit" /\ last.prior >= RequestsPerMinute)
        => (last.allowed = FALSE /\ last.remaining = 0)

C1_Witness ==
    /\ last.op = "checkLimit"
    /\ last.prior >= RequestsPerMinute
    /\ last.allowed = FALSE

\* C2: for every session and every instant t, at most N checkLimit calls
\* were allowed with a timestamp in (t - window, t], whatever limiter
\* operations ran in between.
C2_SlidingWindow ==
    \A s \in Sessions : \A t \in 0..MaxTime :
        CountIn(allowedLog[s], t) <= RequestsPerMinute

\* a session that filled one window, was let in again after it, and whose
\* calls around the boundary still number exactly N in some window
C2_Witness ==
    \E s \in Sessions :
        /\ Len(allowedLog[s]) > RequestsPerMinute
        /\ \E t \in 0..MaxTime :
              /\ CountIn(allowedLog[s], t) = RequestsPerMinute
              /\ \E i, j \in 1..Len(allowedLog[s]) :
                    /\ allowedLog[s][i] > t - WindowSizeMs
                    /\ allowedLog[s][j] > t - WindowSizeMs
                    /\ allowedLog[s][i] < allowedLog[s][j]
                    /\ allowedLog[s][j] <= t

\* ---- claims about the front-ends (SpecServer)
Steps(trace) == {trace[i] : i \in 1..Len(trace)}

\* the backend step of a trace comes after an allowed rate-limit check and a
\* passed validation, and no check of the trace failed
BackendGuarded(trace) ==
    /\ "ratelimit:deny" \notin Steps(trace)
    /\ "validate:fail" \notin Steps(trace)
    /\ \A i \in 1..Len(trace) : trace[i] = "backend" =>
          /\ \E j \in 1..(i - 1) : trace[j] = "ratelimit:ok"
          /\ \E j \in 1..(i - 1) : trace[j] = "validate:ok"

\* C3: a tool handler calls the backend only after the rate-limit check
\* allowed the request and validation passed; a request that is rate-limited
\* or fails validation gets its error document and no backend call is made.
C3_BackendAfterChecks ==
    /\ \A p \in pending : BackendGuarded(p.trace)
    /\ resp.backend # "none" => ("backend" \in Steps(resp.trace) /\ BackendGuarded(resp.trace))
    /\ resp.doc.kind \in {"rate_limit", "validation"} =>
          (resp.backend = "none" /\ "backend" \notin Steps(resp.trace))

\* a rate-limit document is returned while an admitted call waits for the backend
C3_Witness ==
    /\ resp.doc.kind = "rate_limit"
    /\ resp.rank > RequestsPerMinute
    /\ resp.backend = "none"
    /\ pending # {}

\* C4: whatever the backend does, the tool handler resolves with an
\* artifact-envelope document; it never rejects.
C4_HandlerAlwaysResolves ==
    resp.backend # "none" =>
        (resp.error # "handler_rejected" /\ resp.channel = "result" /\ resp.doc.kind # "none")

\* C5: for a known tool, a validation failure and a rate-limit denial are
\* delivered as an artifact envelope in the normal result channel, never as
\* a JSON-RPC error or an HTTP 400/429 body.
C5_UniformEnvelope ==
    (/\ resp.route # "none"
     /\ resp.name \in Tools
     /\ Steps(resp.trace) \cap {"schema:fail", "validate:fail", "ratelimit:deny"} # {})
        => (resp.channel = "result" /\ resp.doc.kind \in {"validation", "rate_limit"})

\* C6: validation runs before the rate-limit check, so a request that fails
\* validation never had a timestamp recorded by the limiter.
C6_ValidateBeforeRateLimit ==
    (Steps(resp.trace) \cap {"schema:fail", "validate:fail"} # {})
        => "ratelimit:ok" \notin Steps(resp.trace)

\* C7: on every transport match_resume is rendered with the full renderer and
\* match_jobs_to_apply is executed and rendered with the index-only renderer.
C7_RendererByTool ==
    (resp.route # "none" /\ resp.name \in Tools) =>
        /\ resp.error # "not_implemented"
        /\ resp.doc.kind \in {"full", "index"} =>
              resp.doc.kind = (IF resp.name = "match_resume" THEN "full" ELSE "index")

\* C8: over HTTP only the (N+1)th tool call of a peer address within one
\* window is answered with a rate-limit response; the first N are passed on.
C8_HttpOneUnitPerCall ==
    (resp.route \in {"http_rpc", "http_rest"} /\ resp.doc.kind = "rate_limit")
        => resp.rank > RequestsPerMinute

\* C9: in the worker the (N+1)th tool call of a session within one window is
\* answered with the rate-limit document and makes no backend call.
C9_WorkerLimitPersists ==
    (resp.route \in {"worker_rpc", "worker_rest"} /\ resp.rank > RequestsPerMinute)
        => (resp.doc.kind = "rate_limit" /\ resp.backend = "none")

\* C10: the limit the limiter enforces is the configured RATE_LIMIT_PER_MINUTE,
\* and the quota printed in the rate-limit document is the enforced limit.
C10_EnforcedIsConfigured ==
    resp.doc.kind = "rate_limit" =>
        (resp.doc.limit = ConfigRateLimit(envLimit) /\ resp.doc.quota = resp.doc.limit)

\* C11: a session that was denied is let in again: a checkLimit made
\* strictly later than (oldest timestamp counted at the denial + window) is
\* allowed when fewer than N calls of the session were allowed in its
\* trailing window; and a denial always has a counted request less than one
\* window old (both limiter classes).
C11_Recovery ==
    /\ (last.op = "checkLimit" /\ last.lockedSince # -1
          /\ last.time > last.lockedSince + WindowSizeMs
          /\ last.prior < RequestsPerMinute)
            => last.allowed = TRUE
    /\ (last.op = "checkLimit" /\ last.allowed = FALSE)
            => (last.oldest # -1 /\ last.time < last.oldest + WindowSizeMs)

\* a denied session is allowed again once its oldest counted call left the window
C11_Witness ==
    /\ last.op = "checkLimit"
    /\ last.lockedSince # -1
    /\ last.time > last.lockedSince + WindowSizeMs
    /\ last.allowed = TRUE

\* C12: checkLimit, wouldAllow, getStatus and resetUser applied to session A
\* leave the record of every other session as it was, and the allowed and
\* remaining values returned for A are a function of A's own allowed calls.
SessionOps == {"checkLimit", "wouldAllow", "getStatus", "resetUser"}
OthersUntouched ==
    last'.op \in SessionOps =>
        \A B \in Sessions \ {last'.session} :
            /\ (B \in DOMAIN users') = (B \in DOMAIN users)
            /\ B \in DOMAIN users => users'[B] = users[B]
            /\ (B \in DOMAIN requests') = (B \in DOMAIN requests)
            /\ B \in DOMAIN requests => requests'[B] = requests[B]
OwnHistoryDecides ==
    /\ last.op = "checkLimit" =>
          /\ last.allowed = (last.prior < RequestsPerMinute)
          /\ last.remaining = IF last.allowed THEN RequestsPerMinute - last.prior - 1 ELSE 0
    /\ last.op \in {"wouldAllow", "getStatus"} =>
          /\ last.allowed = (last.prior < RequestsPerMinute)
          /\ last.remaining = RequestsPerMinute - last.prior
C12_SessionIsolation == [][OthersUntouched]_vars /\ []OwnHistoryDecides

\* a session is reset beside a session whose record is full
C12_Witness ==
    /\ last.op = "resetUser"
    /\ last.session \notin DOMAIN users
    /\ \E B \in Sessions \ {last.session} :
          /\ B \in DOMAIN users
          /\ Len(users[B].requests) = RequestsPerMinute

\* C13: a request that carries exactly one of start_date / end_date is
\* rejected by validation on every path, so the form sent to the backend
\* never holds one date without the other.
BothOrNeither(form) ==
    (form.start_date.kind = "absent") = (form.end_date.kind = "absent")
C13_OneDateNeverForwarded ==
    /\ \A p \in pending : BothOrNeither(p.form)
    /\ resp.form.posts > 0 => BothOrNeither(resp.form)

\* C14: validateInputs with both dates present and well-formed is invalid
\* with the ordering message when start_date >= end_date, invalid with the
\* range message when the span exceeds 365 days, and gets no error from the
\* date-range check when start_date < end_date and the span is at most 365 days.
OrderingMessage == "Start date must be before end date"
RangeMessage == "Date range is too long"
C14_DateRange ==
    (output.fn = "validateInputs"
     /\ input.args.start_date.kind = "date" /\ input.args.end_date.kind = "date")
    => LET start == input.args.start_date.day
           end == input.args.end_date.day
       IN /\ start >= end => (~output.valid /\ OrderingMessage \in output.errors)
          /\ end - start > MaxRangeDays => (~output.valid /\ RangeMessage \in output.errors)
          /\ (start < end /\ end - start <= MaxRangeDays)
                => output.errors \cap {OrderingMessage, RangeMessage} = {}

\* a range of exactly 365 days passes, on a request that is valid as a whole
C14_Witness ==
    /\ output.fn = "validateInputs"
    /\ input.args.start_date.kind = "date" /\ input.args.end_date.kind = "date"
    /\ input.args.end_date.day - input.args.start_date.day = MaxRangeDays
    /\ output.valid

\* C15: validateInputs reports the length-specific message for every
\* resume_text shorter than the minimum (the empty string included) or longer
\* than the maximum, reports no length or content error for a text within the
\* bounds that has at least 10 words and no run of 21 identical characters,
\* and its bounds are the ones the tool schema and the transport
\* configuration give.
ContentMessages ==
    {"too short", "too long", "insufficient content",
     "suspicious repeated characters", "at least 10 words"}
C15_ResumeTextBounds ==
    (output.fn = "validateInputs" /\ input.args.resume_text.kind # "absent")
        => LET text == input.args.resume_text
           IN /\ MIN_RESUME_LENGTH = SchemaMinLength /\ MAX_RESUME_LENGTH = SchemaMaxLength
              /\ MIN_RESUME_LENGTH = MIN_FILE_SIZE /\ MAX_RESUME_LENGTH = MAX_FILE_SIZE
              /\ text.length < MIN_RESUME_LENGTH
                    => (~output.valid /\ "too short" \in output.errors)
              /\ text.length > MAX_RESUME_LENGTH
                    => (~output.valid /\ "too long" \in output.errors)
              /\ (text.length >= MIN_RESUME_LENGTH /\ text.length <= MAX_RESUME_LENGTH
                  /\ text.words >= MinWords /\ text.run < RepeatedRun)
                    => output.errors \cap ContentMessages = {}

\* C16: a tool call sends at most one request to the backend, and when the
\* fetch of a suspended call settles, with a failure as with a success, the
\* call is answered in that same step.
OneRequestPerCall ==
    /\ \A p \in pending : p.form.posts = 1
    /\ resp.backend # "none" => resp.form.posts = 1
AnsweredAtOnce ==
    \A p \in pending :
        p \notin pending' =>
            (resp'.backend # "none" /\ resp'.peer = p.peer /\ resp'.form.posts = 1)
TitleForStatus(o) ==
    IF o.kind # "http" \/ o.status = 200 THEN "Request Failed"
    ELSE CASE o.status = 401 -> "Authentication Error"
           [] o.status = 400 -> "File Processing Error"
           [] o.status = 413 -> "File Too Large"
           [] o.status = 422 -> "Invalid Parameters"
           [] o.status = 500 -> "Server Error"
           [] OTHER -> "Request Failed"
C17_DocumentByStatus ==
    output.fn = "formatError" =>
        /\ ~output.thrown
        /\ output.doc.kind = "error"
        /\ output.doc.title = TitleForStatus(input.outcome)

\* C18: for both tools the renderer selects the 'no matches' document
\* exactly when the backend reports total_matches = 0, and
\* metadata.total_matches of the envelope is the backend's total_matches.
C18_NoMatchesByTotal ==
    output.fn \in {"formatMarkdownResponse", "formatTableOnlyMarkdownResponse"} =>
        /\ (output.doc.kind = "no_matches") = (input.data.total_matches = 0)
        /\ output.total_matches = input.data.total_matches

\* C19: on every transport a process without the bearer secret aborts at
\* startup: it never takes a tool call and never answers one, not even with
\* an error document.
C19_NoSecretNoService ==
    ~secret =>
        /\ resp = NoResp
        /\ pending = {}
        /\ TotalCalls = 0

\* C20: a denied checkLimit returns resetTime = (oldest timestamp still
\* counted in the window) + window, in both limiter classes.
C20_ResetTimeOnDenial ==
    (last.op = "checkLimit" /\ last.allowed = FALSE)
        => last.resetTime = last.oldest + WindowSizeMs

\* a session of the users map is idle: none of its timestamps is inside the
\* trailing window and its resetTime has elapsed
Idle(s) ==
    /\ s \in DOMAIN users
    /\ \A i \in 1..Len(users[s].requests) : users[s].requests[i] <= now - WindowSizeMs
    /\ users[s].resetTime < now

CleanupRemovesIdle ==
    CallCleanup => \A s \in Sessions : Idle(s) => s \notin DOMAIN users'

\* C21: cleanup() removes every idle session (no request inside the trailing
\* window, resetTime elapsed) from the users map.
C21_CleanupRemovesIdle == [][CleanupRemovesIdle]_vars

WouldAllowIsPeek ==
    \A s \in Sessions :
        CallWouldAllow(s) =>
            /\ users' = users
            /\ last'.allowed = checkLimit(users, RequestsPerMinute, s, now).result.allowed

\* C22: wouldAllow is a pure peek: for every session id, known or never
\* seen, it leaves the users map as it was, and its allowed value is the one
\* a checkLimit at the same instant returns.
C22_WouldAllowIsPeek == [][WouldAllowIsPeek]_vars

\* the instants from now on at which the model can look at a session
Instants == now..(MaxTime + WindowSizeMs)

\* a denied RateLimiter.checkLimit: the record keeps exactly its in-window
\* timestamps and its resetTime, and the session is allowed again at the
\* same instants as before the call
DeniedRecordsNothing(s) ==
    (CallCheckLimit(s) /\ ~last'.allowed) =>
        /\ s \in DOMAIN users
        /\ DOMAIN users' = DOMAIN users
        /\ users'[s].requests =
               SelectSeq(users[s].requests, LAMBDA ts: ts > now - WindowSizeMs)
        /\ users'[s].resetTime = users[s].resetTime
        /\ \A x \in DOMAIN users \ {s} : users'[x] = users[x]
        /\ \A t \in Instants :
               wouldAllow(users', RequestsPerMinute, s, t).result.allowed
                   = wouldAllow(users, RequestsPerMinute, s, t).result.allowed

\* a denied WorkersRateLimiter.checkLimit writes nothing
WorkersDeniedRecordsNothing(s) ==
    (CallWorkersCheckLimit(s) /\ ~last'.allowed) => requests' = requests

\* C23: a denied checkLimit records nothing: no timestamp is appended, the
\* session's in-window timestamps and its resetTime stay as they were, so
\* denied calls do not postpone the instant at which the session is allowed
\* again (both limiter classes).
C23_DeniedRecordsNothing ==
    [][\A s \in Sessions : DeniedRecordsNothing(s) /\ WorkersDeniedRecordsNothing(s)]_vars

\* C23 witness: a denial that follows an earlier denial of the same session
C23_Witness ==
    /\ last.op = "checkLimit"
    /\ ~last.allowed
    /\ last.lockedSince # -1
    /\ last.time > last.oldest

\* the tool calls of a peer that are waiting for the backend
InFlight(peer) == {p \in pending : p.peer = peer}

\* the number of timestamps the RateLimiter record of a session holds
Recorded(sessionId) ==
    IF sessionId \in DOMAIN users THEN Len(users[sessionId].requests) ELSE 0

\* the number of checkLimit calls the process made for the session a peer
\* is limited under
Checked(peer) == Len(callLog[peer])

AtMostLimitReachBackend ==
    /\ \A p \in pending : p.rank <= RequestsPerMinute
    /\ resp.backend # "none" => resp.rank <= RequestsPerMinute
    /\ \A p, q \in pending : (p.peer = q.peer /\ p.rank = q.rank) => p = q
    /\ \A p \in pending : resp.backend # "none" => ~(p.peer = resp.peer /\ p.rank = resp.rank)

\* the sessions the front-end hands to the limiter: getSessionId() on stdio,
\* the peer address on HTTP
LimitedSessions == IF transport = "stdio" THEN {StdioSession} ELSE Peers

NothingLostOrDoubled ==
    /\ \A peer \in LimitedSessions :
          Recorded(peer) = IF Checked(peer) < RequestsPerMinute THEN Checked(peer)
                           ELSE RequestsPerMinute
    /\ \A sessionId \in DOMAIN users :
          /\ Recorded(sessionId) <= RequestsPerMinute
          /\ Recorded(sessionId) <= TotalCalls

\* C24: in a process built on RateLimiter and the index.js handlers (the
\* stdio and HTTP front-ends), with any number of tool calls of one session
\* suspended at the backend call, at most N calls of the session reach the
\* backend within the window, and the session's record holds exactly one
\* timestamp per allowed check: none is lost, none is counted twice.
C24_ConcurrentCalls ==
    transport \in {"stdio", "http"} => (AtMostLimitReachBackend /\ NothingLostOrDoubled)

\* C24 witness: N calls of one session are in flight together, and a further
\* call of that session arriving meanwhile is turned away by the limiter
C24_Witness ==
    /\ transport = "stdio"
    /\ Cardinality(InFlight(resp.peer)) = RequestsPerMinute
    /\ resp.doc.kind = "rate_limit"
    /\ resp.rank = RequestsPerMinute + 1

\* the forms of the tool calls that reached the backend
Forwarded ==
    {[p.form EXCEPT !.posts = 1] : p \in pending}
    \cup (IF resp.form.posts > 0 THEN {[resp.form EXCEPT !.posts = 1]} ELSE {})

\* the forms built from sanitized arguments that pass validation
SanitizedForms ==
    {formData(sanitizeParameters(a)) : a \in {x \in Arguments : validateInputs(x).valid}}

\* C25: the sanitizer runs after validation and before the backend call, so
\* the values forwarded to the backend are the sanitized ones (strings
\* trimmed, sort_by in lower case: 'DATE' is forwarded as 'date').
C25_SanitizedForwarded == \A f \in Forwarded : f \in SanitizedForms

\* C26: the form sent to the backend holds the file part and all seven text
\* fields, and each field whose argument is absent is the empty string.
C26_AbsentIsEmpty ==
    output.fn = "callBackendAPI" =>
        LET a == input.args
            f == output.form
        IN /\ f.file # ""
           /\ a.user_experience = Undefined => f.user_experience = ""
           /\ a.keywords = Undefined => f.keywords = ""
           /\ a.location = Undefined => f.location = ""
           /\ a.start_date = AbsentDate => f.start_date = AbsentDate
           /\ a.end_date = AbsentDate => f.end_date = AbsentDate
           /\ a.page = AbsentPage => f.page = ""
           /\ a.sort_by = Undefined => f.sort_by = ""

\* a table with one row per job in rank order and one cell per header column
WellFormedTable(table, jobs) ==
    /\ Len(table.header) = 8
    /\ Len(table.rows) = jobs
    /\ \A i \in 1..Len(table.rows) :
          /\ table.rows[i].rank = i
          /\ Len(table.rows[i].cells) = Len(table.header)

\* C27: for a non-empty job list the index table of the full renderer is the
\* table of the index-only renderer: a row per job in input order, and in
\* every row exactly one cell for each of the eight header columns.
C27_SameIndexTable ==
    (output.fn \in {"formatMarkdownResponse", "formatTableOnlyMarkdownResponse"}
        /\ input.data.matches > 0)
        => /\ WellFormedTable(output.table, input.data.matches)
           /\ formatMarkdownResponse(input.data, 0).table
                  = formatTableOnlyMarkdownResponse(input.data, 0).table

\* the counts of a result returned by RateLimiter
CountsAgree ==
    /\ last.limit = RequestsPerMinute
    /\ last.requestCount <= RequestsPerMinute
    /\ last.remaining >= 0
    /\ last.remaining <= RequestsPerMinute
    /\ last.remaining = RequestsPerMinute - last.requestCount

\* C28: every record of the users map holds at most N timestamps; every
\* result of checkLimit, wouldAllow and getStatus has requestCount <= N,
\* 0 <= remaining <= N and remaining = N - requestCount; checkLimit allows
\* exactly when fewer than N timestamps were counted before it recorded.
C28_CountInvariant ==
    /\ \A s \in DOMAIN users : Len(users[s].requests) <= RequestsPerMinute
    /\ (impl = "RateLimiter" /\ last.op \in {"checkLimit", "wouldAllow", "getStatus"})
          => CountsAgree
    /\ (impl = "RateLimiter" /\ last.op = "checkLimit")
          => /\ last.allowed <=> last.prior < RequestsPerMinute
             /\ last.requestCount = IF last.allowed THEN last.prior + 1 ELSE last.prior

\* C28 witness: a status read of a session whose window is full
C28_Witness ==
    /\ impl = "RateLimiter"
    /\ last.op = "getStatus"
    /\ last.requestCount = RequestsPerMinute
    /\ last.remaining = 0

\* C29: the resetTime returned with a denial is never too early: a
\* checkLimit of the session at any time >= that resetTime is allowed, when
\* no check of the session was allowed in between (both limiter classes).
C29_ResetTimeNotEarly ==
    (last.op = "checkLimit" /\ last.promised # -1 /\ last.time >= last.promised)
        => last.allowed

\* C29 witness: a session denied earlier is checked exactly at the resetTime
\* it was given
C29_Witness ==
    /\ last.op = "checkLimit"
    /\ last.promised # -1
    /\ last.time = last.promised
    /\ last.allowed

\* C30: on POST / every request other than notifications/initialized is
\* answered with a JSON-RPC message whose id is the id of the request (id 0
\* included), be it a result or an error; notifications/initialized is
\* answered with an empty 200 and no JSON-RPC message.
C30_ResponseIdIsRequestId ==
    resp.route \in {"http_rpc", "worker_rpc"} =>
        IF resp.name = "notifications/initialized"
        THEN resp.channel = "empty_200" /\ resp.id = NoId
        ELSE resp.id = resp.request

====
